---- MODULE Spec2Model ----
(***************************************************************************)
(* FastSim click challenge (src/alumnos/fastsim.py): the score table and   *)
(* its JSON file, and the round state machine of FastClickGame.            *)
(*                                                                         *)
(* Text is a sequence of one-character strings, so that str.strip() is a   *)
(* function that can be computed.  A float n.0 is the integer n.  JSON     *)
(* numbers are finite (int, float, an int too large for a float); the      *)
(* non-standard literals NaN and Infinity are outside the value domain.    *)
(***************************************************************************)
EXTENDS Integers, Sequences, FiniteSets, Bags, TLC

\* ------------------------------------------------------------ constants
TOTAL_TARGET_CLICKS == 10
MAX_SCORES == 10

\* ------------------------------------------------------------ bounds
\* perf_counter() ranges over 0..MaxClock.
MaxClock == 2
\* Accepted presses of the play button, over the whole run.
MaxStarts == 2
\* Items after the padding in a score file of the load specification.
MaxTail == 2

\* ------------------------------------------------------------ optional values
NoText == [some |-> FALSE, s |-> <<>>]
SomeText(s) == [some |-> TRUE, s |-> s]
NoTime == [some |-> FALSE, t |-> 0]
SomeTime(t) == [some |-> TRUE, t |-> t]

\* Python truthiness of an optional str: None and "" are falsy.
Truthy(o) == o.some /\ o.s # <<>>

\* ------------------------------------------------------------ text
Placeholder == <<"A", "n", "o", "n", "i", "m", "o">>
Stamp == <<"2", "0", "2", "4">>

IsSpace(c) == c = " "

RECURSIVE LStrip(_)
LStrip(s) ==
    IF s # <<>> /\ IsSpace(Head(s)) THEN LStrip(Tail(s)) ELSE s

RECURSIVE RStrip(_)
RStrip(s) ==
    IF s # <<>> /\ IsSpace(s[Len(s)]) THEN RStrip(SubSeq(s, 1, Len(s) - 1)) ELSE s

\* str.strip()
Strip(s) == RStrip(LStrip(s))

\* ------------------------------------------------------------ JSON values
\* A field value: its JSON kind, its text (kind str) and its number (kinds
\* int, float, bool).  "missing" is a key the record does not have.
JV(k, s, n) == [k |-> k, s |-> s, n |-> n]
JStr(s) == JV("str", s, 0)
JInt(n) == JV("int", <<>>, n)
JFloat(n) == JV("float", <<>>, n)
JBool(b) == JV("bool", <<>>, IF b THEN 1 ELSE 0)
JBigInt == JV("bigint", <<>>, 0)
JNull == JV("null", <<>>, 0)
JNested == JV("list", <<>>, 0)
JMissing == JV("missing", <<>>, 0)

\* An element of the top-level list: a JSON object with the three keys, or
\* a value that is not an object.
JObject(name, time, timestamp) ==
    [k |-> "dict", name |-> name, time |-> time, timestamp |-> timestamp]
JNotObject == [k |-> "other", name |-> JMissing, time |-> JMissing, timestamp |-> JMissing]

\* The score file: absent; present and unreadable (open raises OSError);
\* present and not UTF-8; present and not JSON; or a JSON document, whose
\* top-level value is a list of items or something else.
FileAbsent == [st |-> "absent", top |-> "none", items |-> <<>>]
FileUnreadable == [st |-> "unreadable", top |-> "none", items |-> <<>>]
FileUndecodable == [st |-> "undecodable", top |-> "none", items |-> <<>>]
FileUnparseable == [st |-> "unparseable", top |-> "none", items |-> <<>>]
FileNotList == [st |-> "json", top |-> "other", items |-> <<>>]
FileList(items) == [st |-> "json", top |-> "list", items |-> items]

\* ------------------------------------------------------------ score entries
ScoreEntry(name, time, timestamp) ==
    [name |-> name, time |-> time, timestamp |-> timestamp]

Take(s, n) == SubSeq(s, 1, IF Len(s) < n THEN Len(s) ELSE n)

\* list.sort(key=time) is stable: an entry goes after the entries that are
\* not slower than it.
InsertByTime(sorted, e) ==
    LET k == Cardinality({i \in 1..Len(sorted) : sorted[i].time <= e.time})
    IN SubSeq(sorted, 1, k) \o <<e>> \o SubSeq(sorted, k + 1, Len(sorted))

RECURSIVE SortByTime(_)
SortByTime(s) ==
    IF s = <<>> THEN <<>>
    ELSE InsertByTime(SortByTime(SubSeq(s, 1, Len(s) - 1)), s[Len(s)])

\* isinstance(x, str)
IsInstanceStr(v) == v.k = "str"

\* Mutant: isinstance(x, int), which no float passes.
IsInstanceIntOnly(v) == v.k \in {"int", "bigint", "bool"}

\* isinstance(x, (int, float)): bool is a subclass of int.
IsInstanceNumber(v) == v.k \in {"int", "bigint", "float", "bool"}

\* The test of load_scores on one item of the list.
IsValidItem(item) ==
    /\ item.k = "dict"
    /\ IsInstanceStr(item.name)
    /\ IsInstanceNumber(item.time)
    /\ IsInstanceStr(item.timestamp)

\* float(x) raises OverflowError on an int too large for a float.
FloatOverflows(v) == v.k = "bigint"

\* float(x) of an int, a float or a bool.
ToFloat(v) == v.n

ItemToEntry(item) == ScoreEntry(item.name.s, ToFloat(item.time), item.timestamp.s)

RECURSIVE MapItems(_)
MapItems(items) ==
    IF items = <<>> THEN <<>>
    ELSE <<ItemToEntry(Head(items))>> \o MapItems(Tail(items))

LoadReturned(table) == [raised |-> FALSE, table |-> table]
LoadRaised == [raised |-> TRUE, table |-> <<>>]

\* load_scores(): the table it returns, or that it raises.
load_scores(f) ==
    IF f.st = "absent" THEN LoadReturned(<<>>)
    ELSE IF f.st = "unreadable" THEN LoadReturned(<<>>)
    ELSE IF f.st = "undecodable" THEN LoadRaised
    ELSE IF f.st = "unparseable" THEN LoadReturned(<<>>)
    ELSE IF f.top # "list" THEN LoadReturned(<<>>)
    ELSE LET valid == SelectSeq(f.items, IsValidItem)
         IN IF \E i \in 1..Len(valid) : FloatOverflows(valid[i].time)
            THEN LoadRaised
            ELSE LoadReturned(Take(SortByTime(MapItems(valid)), MAX_SCORES))

\* json.dump(self.scores): a list of objects, each time written as a float.
EntryToItem(e) == JObject(JStr(e.name), JFloat(e.time), JStr(e.timestamp))

RECURSIVE MapEntries(_)
MapEntries(entries) ==
    IF entries = <<>> THEN <<>>
    ELSE <<EntryToItem(Head(entries))>> \o MapEntries(Tail(entries))

DumpScores(entries) == FileList(MapEntries(entries))

\* ------------------------------------------------------------ score.record
\* record_score asks for the name when self.player_name is None or "".
NeedsPrompt(pn) == ~Truthy(pn)

\* self.player_name = name.strip() if name else "Anónimo"
NameFromPrompt(resp) ==
    IF Truthy(resp) THEN SomeText(Strip(resp.s)) ELSE SomeText(Placeholder)

\* name=self.player_name or "Anónimo"
EntryName(pn) == IF Truthy(pn) THEN pn.s ELSE Placeholder

\* Mutant: the sort is left out.
RecordedTableUnsorted(table, e) == Take(Append(table, e), MAX_SCORES)

\* Mutant: the slice keeps the last MAX_SCORES, [-MAX_SCORES:].
RecordedTableKeepLast(table, e) ==
    LET s == SortByTime(Append(table, e))
    IN SubSeq(s, (IF Len(s) > MAX_SCORES THEN Len(s) - MAX_SCORES + 1 ELSE 1), Len(s))

\* append, sort by time, keep the first MAX_SCORES.
RecordedTable(table, e) == Take(SortByTime(Append(table, e)), MAX_SCORES)

\* What open("w") and json.dump leave behind: the new document; the old
\* file when open fails; a cut-off document when a write fails.
SaveOutcomes == {"ok", "open_failed", "write_failed"}
FileAfterSave(f, table, outcome) ==
    IF outcome = "ok" THEN DumpScores(table)
    ELSE IF outcome = "open_failed" THEN f
    ELSE FileUnparseable

\* best_time = self.scores[0]["time"] if self.scores else None
BestTime(table) == IF table # <<>> THEN SomeTime(table[1].time) ELSE NoTime

\* ------------------------------------------------------------ inputs
\* What simpledialog.askstring returns: None (cancel), "", " ", "A", " A ".
PromptResponses ==
    {NoText, SomeText(<<>>), SomeText(<<" ">>), SomeText(<<"A">>),
     SomeText(<<" ", "A", " ">>)}

RECURSIVE Pad(_, _)
Pad(item, n) == IF n = 0 THEN <<>> ELSE <<item>> \o Pad(item, n - 1)

SeqsUpTo(S, n) == UNION {[1..m -> S] : m \in 0..n}

PadItem == JObject(JStr(<<"B">>), JFloat(1), JStr(Stamp))

NameValues == {JStr(<<"A">>), JInt(1), JBool(TRUE), JNull, JNested, JMissing}
TimeValues ==
    {JInt(0), JInt(-1), JFloat(2), JBool(TRUE), JBigInt, JStr(<<"1">>), JNull,
     JNested, JMissing}
StampValues == {JStr(Stamp), JInt(1), JBool(TRUE), JNull, JNested, JMissing}

\* Items of the load specification: every kind of value in each field.
LoadItems ==
    {JNotObject}
    \cup {JObject(n, JFloat(2), JStr(Stamp)) : n \in NameValues}
    \cup {JObject(JStr(<<"A">>), t, JStr(Stamp)) : t \in TimeValues}
    \cup {JObject(JStr(<<"A">>), JFloat(2), s) : s \in StampValues}

SlowItem == JObject(JStr(<<"A">>), JFloat(2), JStr(Stamp))

\* A file with records that pass and records that do not, out of order.
MixedItems ==
    <<SlowItem,
      JObject(JStr(<<"A">>), JBool(TRUE), JStr(Stamp)),
      JObject(JMissing, JFloat(0), JStr(Stamp)),
      JObject(JStr(<<"A">>), JInt(0), JStr(Stamp))>>

OtherFiles ==
    {FileAbsent, FileUnreadable, FileUndecodable, FileUnparseable, FileNotList}

ListFiles(items, n) ==
    {FileList(Pad(PadItem, p) \o tail) :
        p \in {0, MAX_SCORES - 1}, tail \in SeqsUpTo(items, n)}

LoadFiles == OtherFiles \cup ListFiles(LoadItems, MaxTail)
\* The files of the game specification: the table they load is empty, short,
\* full, or cut by the load.
GameFiles ==
    OtherFiles
    \cup {FileList(<<>>), FileList(MixedItems),
          FileList(Append(Pad(PadItem, MAX_SCORES - 1), SlowItem)),
          FileList(Append(Pad(PadItem, MAX_SCORES), SlowItem))}

\* ------------------------------------------------------------ state
VARIABLES
    proc,            \* "off", "running", or "crashed" (an exception left __init__)
    file,            \* SCORE_FILE
    scores,          \* self.scores
    player_name,     \* self.player_name
    hits,            \* self.hits
    start_time,      \* self.start_time
    game_active,     \* self.game_active
    countdown_value, \* self.countdown_value
    timers,          \* the pending root.after callbacks
    play_button,     \* the state of self.play_button
    best_label,      \* the time self.best_label shows
    clock,           \* time.perf_counter()
    lastEvent,       \* history: the last handler that ran
    lastOutcome,     \* history: what it did
    warned,          \* history: the last handler showed a warning
    prompts,         \* history: name prompts shown by this process
    recorded,        \* history: rounds recorded by this process
    resetPending,    \* history: a confirmed reset, and no record since
    ioFailed,        \* history: some file operation has failed
    starts,          \* history: accepted presses of the play button
    lastElapsed,     \* history: the time handed to record_score
    firstClickAt,    \* history: the clock at the round's first registered click
    lastClickAt,     \* history: the clock at the round's last registered click
    failedNow,       \* history: a file operation of the last handler failed
    lastResp,        \* history: the answer to the name prompt in the last handler
    lastName,        \* history: the name of the last entry this process recorded
    goFired,         \* history: runs of _start_game since the last accepted press
    roundReset       \* history: a confirmed reset while this round was in progress

session == <<hits, start_time, game_active, countdown_value, timers, play_button>>
store == <<file, scores, player_name, best_label>>
roundHistory == <<lastElapsed, firstClickAt, lastClickAt>>
counters == <<prompts, recorded, resetPending, ioFailed, starts>>
handlerHistory == <<warned, failedNow, lastResp>>
vars ==
    <<proc, session, store, clock, lastEvent, lastOutcome, handlerHistory, counters,
      roundHistory, lastName, goFired, roundReset>>

\* The process is not running: only the file exists.
Off(files) ==
    /\ proc = "off"
    /\ file \in files
    /\ scores = <<>>
    /\ player_name = NoText
    /\ hits = 0
    /\ start_time = NoTime
    /\ game_active = FALSE
    /\ countdown_value = 0
    /\ timers = <<>>
    /\ play_button = "normal"
    /\ best_label = NoTime
    /\ clock = 0
    /\ lastEvent = "none"
    /\ lastOutcome = "none"
    /\ warned = FALSE
    /\ prompts = 0
    /\ recorded = 0
    /\ resetPending = "no"
    /\ ioFailed = FALSE
    /\ starts = 0
    /\ lastElapsed = NoTime
    /\ firstClickAt = NoTime
    /\ lastClickAt = NoTime
    /\ failedNow = FALSE
    /\ lastResp = NoText
    /\ lastName = NoText
    /\ goFired = 0
    /\ roundReset = FALSE

Init == Off(GameFiles)
InitLoad == Off(LoadFiles)

\* Mutant: prepare_game() does not reset self.hits.
prepare_game_keeps_hits(table) ==
    /\ UNCHANGED hits
    /\ start_time' = NoTime
    /\ game_active' = FALSE
    /\ best_label' = BestTime(table)

\* Mutant: prepare_game() does not reset self.start_time.
prepare_game_keeps_start_time(table) ==
    /\ hits' = 0
    /\ UNCHANGED start_time
    /\ game_active' = FALSE
    /\ best_label' = BestTime(table)

\* prepare_game(): the round's counters, and the best time of the table.
prepare_game(table) ==
    /\ hits' = 0
    /\ start_time' = NoTime
    /\ game_active' = FALSE
    /\ best_label' = BestTime(table)

\* FastClickGame.__init__: load the table, reset the round.
Launch ==
    /\ proc = "off"
    /\ lastEvent' = "launch"
    /\ ioFailed' = (ioFailed \/ file.st = "unreadable")
    /\ LET r == load_scores(file)
       IN IF r.raised
          THEN /\ proc' = "crashed"
               /\ lastOutcome' = "raised"
               /\ UNCHANGED <<scores, hits, start_time, game_active, best_label>>
          ELSE /\ proc' = "running"
               /\ lastOutcome' = "loaded"
               /\ scores' = r.table
               /\ prepare_game(r.table)
    /\ UNCHANGED <<file, player_name, countdown_value, timers, play_button, clock,
                   handlerHistory, prompts, recorded, resetPending, starts,
                   roundHistory, lastName, goFired, roundReset>>

NextLoad == Launch

SpecLoad == InitLoad /\ [][NextLoad]_vars

\* ------------------------------------------------------------ the round
\* Mutant: the button is left enabled during the countdown.
ButtonLeftNormal == "normal"

\* self.play_button.config(state=tk.DISABLED) in start_countdown.
ButtonAfterStart == "disabled"

\* A press of self.play_button.  Tk runs no command for a press of a
\* disabled button; otherwise the command is start_countdown().
PressPlay ==
    /\ proc = "running"
    /\ lastEvent' = "press"
    /\ warned' = FALSE
    /\ failedNow' = FALSE
    /\ lastResp' = NoText
    /\ IF play_button = "disabled" \/ game_active
       THEN /\ lastOutcome' = "rejected"
            /\ UNCHANGED <<session, best_label, starts, roundHistory, goFired,
                           roundReset>>
       ELSE /\ starts < MaxStarts
            /\ starts' = starts + 1
            /\ lastOutcome' = "accepted"
            /\ prepare_game(scores)
            /\ play_button' = ButtonAfterStart
            /\ countdown_value' = 3
            /\ timers' = Append(timers, "tick")
            /\ lastElapsed' = NoTime
            /\ firstClickAt' = NoTime
            /\ lastClickAt' = NoTime
            /\ goFired' = 0
            /\ roundReset' = FALSE
    /\ UNCHANGED <<proc, file, scores, player_name, clock, prompts, recorded,
                   resetPending, ioFailed, lastName>>

\* Mutant: a callback that has run stays pending.
RemoveNone(s, i) == s

\* root.after runs a callback once: it is no longer pending when it runs.
RemoveAt(s, i) == SubSeq(s, 1, i - 1) \o SubSeq(s, i + 1, Len(s))

\* Mutant: the go sub-state begins one tick early.
NextTimerEarly(value) == IF value <= 1 THEN "start" ELSE "tick"

\* The callback _tick_countdown schedules: _start_game at 0, itself otherwise.
NextTimer(value) == IF value = 0 THEN "start" ELSE "tick"

\* _tick_countdown()
tick_countdown(rest) ==
    /\ countdown_value' = countdown_value - 1
    /\ timers' = Append(rest, NextTimer(countdown_value - 1))
    /\ lastOutcome' = (IF NextTimer(countdown_value - 1) = "start" THEN "go"
                       ELSE "counting")
    /\ UNCHANGED <<game_active, play_button, goFired>>

\* _start_game()
start_game(rest) ==
    /\ game_active' = TRUE
    /\ play_button' = "normal"
    /\ timers' = rest
    /\ lastOutcome' = "started"
    /\ goFired' = goFired + 1
    /\ UNCHANGED countdown_value

\* A pending root.after callback comes due.
TimerFire ==
    /\ proc = "running"
    /\ \E i \in 1..Len(timers) :
          /\ lastEvent' = timers[i]
          /\ IF timers[i] = "tick"
             THEN tick_countdown(RemoveAt(timers, i))
             ELSE start_game(RemoveAt(timers, i))
    /\ warned' = FALSE
    /\ failedNow' = FALSE
    /\ lastResp' = NoText
    /\ UNCHANGED <<proc, hits, start_time, store, clock, counters, roundHistory,
                   lastName, roundReset>>

\* Mutant: except OSError: pass.
SaveFailureSilent(outcome) == FALSE

\* save_scores shows a warning when the write raises OSError.
WarnsOnSaveFailure(outcome) == outcome # "ok"

\* reset_scores passes over an OSError of unlink: no warning.
WarnsOnUnlinkFailure(unlinked) == FALSE

\* record_score(elapsed), with the answer to the name prompt and the outcome
\* of the write as inputs.
record_score(elapsed, resp, outcome) ==
    LET pn == IF NeedsPrompt(player_name) THEN NameFromPrompt(resp) ELSE player_name
        score == ScoreEntry(EntryName(pn), elapsed, Stamp)
        table == RecordedTable(scores, score)
    IN /\ prompts' = (IF NeedsPrompt(player_name) THEN prompts + 1 ELSE prompts)
       /\ player_name' = pn
       /\ scores' = table
       /\ file' = FileAfterSave(file, table, outcome)
       /\ warned' = WarnsOnSaveFailure(outcome)
       /\ failedNow' = (outcome # "ok")
       /\ lastResp' = (IF NeedsPrompt(player_name) THEN resp ELSE NoText)
       /\ lastName' = SomeText(score.name)
       /\ ioFailed' = (ioFailed \/ outcome # "ok")
       /\ recorded' = recorded + 1
       /\ resetPending' = "no"
       /\ lastElapsed' = SomeTime(elapsed)

\* finish_game(): nothing is recorded when start_time is None.
finish_game(st, now, resp, outcome) ==
    /\ game_active' = FALSE
    /\ lastOutcome' = "finished"
    /\ IF ~st.some
       THEN /\ warned' = FALSE
            /\ failedNow' = FALSE
            /\ lastResp' = NoText
            /\ UNCHANGED <<file, scores, player_name, prompts, recorded,
                           resetPending, ioFailed, lastElapsed, lastName>>
       ELSE record_score(now - st.t, resp, outcome)

\* Mutant: every click sets start_time.
StartTimeEveryClick(st, now) == SomeTime(now)

\* The start_time a registered click leaves: set by the first one.
StartTimeAfterClick(st, now) == IF st.some THEN st ELSE SomeTime(now)

\* Mutant: the guard is left out.
ClickAlwaysRegistered(active) == TRUE

\* if not self.game_active: return
click_registered(active) == active

\* Mutant: the round ends one click late.
RoundCompleteLate(h) == h > TOTAL_TARGET_CLICKS

\* if self.hits >= TOTAL_TARGET_CLICKS
round_complete(h) == h >= TOTAL_TARGET_CLICKS

\* on_target_click(event)
Click ==
    /\ proc = "running"
    /\ lastEvent' = "click"
    /\ IF ~click_registered(game_active)
       THEN /\ lastOutcome' = "ignored"
            /\ warned' = FALSE
            /\ failedNow' = FALSE
            /\ lastResp' = NoText
            /\ UNCHANGED <<hits, start_time, game_active, file, scores, player_name,
                           prompts, recorded, resetPending, ioFailed, roundHistory,
                           lastName>>
       ELSE /\ start_time' = StartTimeAfterClick(start_time, clock)
            /\ hits' = hits + 1
            /\ firstClickAt' = (IF hits = 0 THEN SomeTime(clock) ELSE firstClickAt)
            /\ lastClickAt' = SomeTime(clock)
            /\ IF round_complete(hits + 1)
               THEN \E resp \in (IF NeedsPrompt(player_name) THEN PromptResponses
                                 ELSE {NoText}),
                       outcome \in SaveOutcomes :
                         finish_game(StartTimeAfterClick(start_time, clock), clock,
                                     resp, outcome)
               ELSE /\ lastOutcome' = "hit"
                    /\ warned' = FALSE
                    /\ failedNow' = FALSE
                    /\ lastResp' = NoText
                    /\ UNCHANGED <<game_active, file, scores, player_name, prompts,
                                   recorded, resetPending, ioFailed, lastElapsed,
                                   lastName>>
    /\ UNCHANGED <<proc, countdown_value, timers, play_button, best_label, clock,
                   starts, goFired, roundReset>>

\* Mutant: the file is never deleted.
FileLeftInPlace(f, unlinked) == f

\* SCORE_FILE.unlink(), when the file exists: an OSError is passed over.
FileAfterUnlink(f, unlinked) == IF unlinked THEN FileAbsent ELSE f

\* Mutant: reset_scores also calls prepare_game().
reset_prepares_round ==
    /\ hits' = 0
    /\ start_time' = NoTime
    /\ game_active' = FALSE

\* reset_scores assigns none of hits, start_time, game_active.
reset_leaves_round == UNCHANGED <<hits, start_time, game_active>>

\* The round is in progress: counting down, in the go sub-state, or active.
RoundInProgress == game_active \/ timers # <<>>

\* reset_scores(), with the answer to askyesno and the outcome of unlink.
ResetScores ==
    /\ proc = "running"
    /\ lastEvent' = "reset"
    /\ lastResp' = NoText
    /\ \E confirmed \in BOOLEAN, unlinked \in BOOLEAN :
          IF ~confirmed
          THEN /\ lastOutcome' = "declined"
               /\ warned' = FALSE
               /\ failedNow' = FALSE
               /\ UNCHANGED <<store, resetPending, ioFailed, roundReset>>
          ELSE /\ scores' = <<>>
               /\ best_label' = NoTime
               /\ roundReset' = (roundReset \/ RoundInProgress)
               /\ IF file.st = "absent"
                  THEN /\ lastOutcome' = "no_file"
                       /\ resetPending' = "no_file"
                       /\ warned' = FALSE
                       /\ failedNow' = FALSE
                       /\ UNCHANGED <<file, ioFailed>>
                  ELSE /\ lastOutcome' = (IF unlinked THEN "deleted" ELSE "unlink_failed")
                       /\ resetPending' = (IF unlinked THEN "deleted" ELSE "unlink_failed")
                       /\ file' = FileAfterUnlink(file, unlinked)
                       /\ warned' = (~unlinked /\ WarnsOnUnlinkFailure(unlinked))
                       /\ failedNow' = ~unlinked
                       /\ ioFailed' = (ioFailed \/ ~unlinked)
               /\ UNCHANGED player_name
    /\ reset_leaves_round
    /\ UNCHANGED <<proc, countdown_value, timers, play_button, clock, prompts,
                   recorded, starts, roundHistory, lastName, goFired>>

\* time.perf_counter() moves on between two events.
AdvanceClock ==
    /\ proc = "running"
    /\ clock < MaxClock
    /\ clock' = clock + 1
    /\ UNCHANGED <<proc, session, store, lastEvent, lastOutcome, handlerHistory,
                   counters, roundHistory, lastName, goFired, roundReset>>

\* The window is closed: the process ends and only the file is left.
Quit ==
    /\ proc = "running"
    /\ proc' = "off"
    /\ scores' = <<>>
    /\ player_name' = NoText
    /\ hits' = 0
    /\ start_time' = NoTime
    /\ game_active' = FALSE
    /\ countdown_value' = 0
    /\ timers' = <<>>
    /\ play_button' = "normal"
    /\ best_label' = NoTime
    /\ lastEvent' = "quit"
    /\ lastOutcome' = "none"
    /\ warned' = FALSE
    /\ prompts' = 0
    /\ recorded' = 0
    /\ lastElapsed' = NoTime
    /\ firstClickAt' = NoTime
    /\ lastClickAt' = NoTime
    /\ failedNow' = FALSE
    /\ lastResp' = NoText
    /\ lastName' = NoText
    /\ goFired' = 0
    /\ roundReset' = FALSE
    /\ UNCHANGED <<file, clock, resetPending, ioFailed, starts>>

Next ==
    \/ Launch
    \/ PressPlay
    \/ TimerFire
    \/ Click
    \/ ResetScores
    \/ AdvanceClock
    \/ Quit

Spec == Init /\ [][Next]_vars

\* The same program where mainloop runs a root.after callback that is due.
SpecLive == Init /\ [][Next]_vars /\ WF_vars(TimerFire)

\* ------------------------------------------------------------ properties
IsSortedByTime(t) == \A i \in 1..(Len(t) - 1) : t[i].time <= t[i + 1].time

Range(s) == {s[i] : i \in DOMAIN s}
BagOfSeq(s) == [x \in Range(s) |-> Cardinality({i \in DOMAIN s : s[i] = x})]

RecordPasses(item) ==
    /\ item.k = "dict"
    /\ item.name.k = "str"
    /\ item.time.k \in {"int", "bigint", "float"}
    /\ item.timestamp.k = "str"

\* C2: when load() returns for a file that is a list of records, the table is
\* exactly the records that pass (name text, time numeric, timestamp text),
\* sorted ascending by time and cut to MAX_SCORES.
C2_LoadKeepsExactlyTheValid ==
    (proc = "running" /\ lastEvent = "launch" /\ file.st = "json" /\ file.top = "list")
        => scores = Take(SortByTime(MapItems(SelectSeq(file.items, RecordPasses))),
                         MAX_SCORES)

\* C3: load() never raises: for a file that is absent, unreadable, not
\* decodable as text, not parseable, or not a list, it returns the empty table.
C3_LoadNeverFails ==
    (lastEvent = "launch" /\ (file.st # "json" \/ file.top # "list"))
        => (proc = "running" /\ scores = <<>>)

\* C4: as long as no file operation has failed, load() of the backing file
\* returns the in-memory table, entry for entry.
C4_LoadEqualsTable ==
    (proc = "running" /\ ~ioFailed) => load_scores(file) = LoadReturned(scores)

\* A process launched on a file that an earlier process wrote in record.
C4_Witness ==
    /\ proc = "running"
    /\ lastEvent = "launch"
    /\ ~ioFailed
    /\ \E i \in DOMAIN scores : scores[i].name = Placeholder

\* The table R after recording e into T holds the MAX_SCORES fastest of T and
\* e in ascending order.
KeepsFastest(T, e, R) ==
    LET all == Append(T, e)
        dropped == BagOfSeq(all) (-) BagOfSeq(R)
    IN /\ Len(R) = (IF Len(all) < MAX_SCORES THEN Len(all) ELSE MAX_SCORES)
       /\ IsSortedByTime(R)
       /\ BagOfSeq(R) \sqsubseteq BagOfSeq(all)
       /\ \A d \in BagToSet(dropped) : \A i \in DOMAIN R : R[i].time <= d.time
       /\ (Len(T) = MAX_SCORES /\ \A i \in DOMAIN T : T[i].time < e.time) => R = T
       /\ (Len(T) = MAX_SCORES /\ e.time < T[MAX_SCORES].time)
            => BagOfSeq(R) = (BagOfSeq(T) (-) SetToBag({T[MAX_SCORES]})) (+) SetToBag({e})

\* C5: every record leaves the MAX_SCORES fastest entries of the old table
\* and the new entry, in ascending order; into a full table, a slower entry
\* changes nothing and a faster one evicts the slowest entry only.
C5_RecordKeepsFastest ==
    [][recorded' = recorded + 1
         => KeepsFastest(scores,
                         ScoreEntry(EntryName(player_name'), lastElapsed'.t, Stamp),
                         scores')]_vars

\* A round with elapsed time 0 was recorded into a full table and took rank 1.
C5_Witness ==
    /\ lastEvent = "click"
    /\ lastOutcome = "finished"
    /\ lastElapsed = SomeTime(0)
    /\ Len(scores) = MAX_SCORES
    /\ scores[1] = ScoreEntry(EntryName(player_name), 0, Stamp)
    /\ scores[MAX_SCORES].time = 1

\* C6 as claimed: after a confirmed reset, and until the next record, load()
\* returns the empty table, whatever the deletion of the file did.
C6_ResetThenLoadEmpty ==
    resetPending # "no"
        => /\ load_scores(file) = LoadReturned(<<>>)
           /\ proc = "running" => scores = <<>>

\* C6 amended: after a confirmed reset that found no file or deleted it, and
\* until the next record, load() returns the empty table.
C6_ResetThenLoadEmptyIfDeleted ==
    resetPending \in {"deleted", "no_file"}
        => /\ load_scores(file) = LoadReturned(<<>>)
           /\ proc = "running" => scores = <<>>

\* A process launched after a reset that deleted the file.
C6_Witness == resetPending = "deleted" /\ proc = "running" /\ lastEvent = "launch"

\* C7: a click while the round is not active changes neither hits,
\* start_time, game_active, the table nor the file, and raises nothing.
C7_ClickWhileInactiveIsNoOp ==
    [][(Click /\ ~game_active)
         => (UNCHANGED <<hits, start_time, game_active, scores, file>>
             /\ proc' = "running")]_vars

\* A click was ignored in the go sub-state.
C7_Witness ==
    /\ lastEvent = "click"
    /\ lastOutcome = "ignored"
    /\ timers = <<"start">>
    /\ hits = 0

\* C8: the time handed to record is the clock at the round's last click less
\* the clock at its first registered click.
C8_ElapsedFromFirstClick ==
    lastElapsed.some
        => /\ firstClickAt.some
           /\ lastClickAt.some
           /\ lastElapsed.t = lastClickAt.t - firstClickAt.t

\* A round whose first click came after the clock had moved, and that took time.
C8_Witness ==
    /\ lastElapsed.some
    /\ lastElapsed.t > 0
    /\ firstClickAt.t > 0
    /\ hits = TOTAL_TARGET_CLICKS

\* The round is idle or finished: not active and no countdown timer pending.
IdleOrFinished == ~game_active /\ timers = <<>>

\* C9: a press of start in Idle or Finished begins Countdown(3); in any
\* other state it changes nothing of the session nor the table.
C9_StartOnlyWhenIdleOrFinished ==
    [][PressPlay
         => IF IdleOrFinished
            THEN /\ countdown_value' = 3
                 /\ timers' = <<"tick">>
                 /\ hits' = 0
                 /\ ~start_time'.some
                 /\ ~game_active'
            ELSE UNCHANGED <<hits, start_time, game_active, countdown_value, timers,
                             scores>>]_vars

\* A press of start was rejected during the countdown.
C9_Witness ==
    /\ lastEvent = "press"
    /\ lastOutcome = "rejected"
    /\ ~game_active
    /\ timers # <<>>

\* C10: a process that has recorded a round has shown the name prompt once.
C10_PromptShownOnce == recorded >= 1 => prompts = 1

\* C11 as claimed: every handler in which a write or a deletion of the score
\* file failed has shown a warning.
C11_EveryFailureWarned == failedNow => warned

\* C11 amended: a failed write in save is reported as a warning and a failed
\* deletion in reset is passed over in silence; in both cases the handler
\* returns, and hits, start_time and game_active are what the handler gives
\* them when the file operation succeeds.
C11_SaveFailureWarnedUnlinkSilent ==
    [][/\ (Click /\ failedNow')
           => /\ warned'
              /\ proc' = "running"
              /\ hits' = hits + 1
              /\ start_time' = StartTimeAfterClick(start_time, clock)
              /\ ~game_active'
       /\ (ResetScores /\ failedNow')
           => /\ ~warned'
              /\ proc' = "running"
              /\ UNCHANGED <<hits, start_time, game_active>>]_vars

\* A round finished and the write of the table it recorded into failed.
C11_Witness ==
    /\ failedNow
    /\ warned
    /\ lastOutcome = "finished"
    /\ hits = TOTAL_TARGET_CLICKS
    /\ file.st # "absent"
    /\ Len(scores) = 1

\* The name the claim gives an entry made from the answer to the prompt.
NameOfResponse(resp) ==
    IF ~resp.some \/ Strip(resp.s) = <<>> THEN Placeholder ELSE Strip(resp.s)

\* C12: every entry record creates has a name that is neither empty nor
\* blank; when the prompt was shown it is the placeholder for an absent,
\* empty or blank answer and the stripped answer otherwise; and every later
\* entry of the process has the name of its first entry.
C12_NameNonBlankAndReused ==
    [][recorded' = recorded + 1
         => /\ lastName'.some
            /\ lastName'.s # <<>>
            /\ Strip(lastName'.s) # <<>>
            /\ prompts' = prompts + 1 => lastName'.s = NameOfResponse(lastResp')
            /\ recorded >= 1 => lastName' = lastName]_vars

\* C13: after an accepted start the countdown shows 3, 2, 1, then the go
\* sub-state, then the round is active: each timer callback advances one
\* step, nothing but a timer callback advances it, the round becomes active
\* only by the callback that ends the go sub-state, and when due callbacks
\* are run the round is eventually active (or the process has been closed).
C13_CountdownReachesActive ==
    /\ [][/\ (TimerFire /\ timers = <<"tick">>)
              => /\ countdown_value \in 1..3
                 /\ countdown_value' = countdown_value - 1
                 /\ timers' = (IF countdown_value = 1 THEN <<"start">> ELSE <<"tick">>)
                 /\ ~game_active'
          /\ (TimerFire /\ timers = <<"start">>)
              => /\ countdown_value = 0
                 /\ game_active'
                 /\ timers' = <<>>
          /\ (~game_active /\ game_active')
              => (TimerFire /\ timers = <<"start">> /\ countdown_value = 0)
          /\ (timers # <<>> /\ proc' = "running" /\ ~TimerFire)
              => UNCHANGED <<countdown_value, timers, game_active>>]_vars
    /\ (proc = "running" /\ lastEvent = "press" /\ lastOutcome = "accepted")
          ~> (game_active \/ proc # "running")

\* The round has just become active, at the end of the go sub-state.
C13_Witness ==
    /\ proc = "running"
    /\ lastEvent = "start"
    /\ lastOutcome = "started"
    /\ game_active
    /\ countdown_value = 0
    /\ timers = <<>>

\* C14: in every reachable state at most one countdown timer callback is
\* pending, the countdown value is between 0 and 3, and _start_game has run
\* at most once since the last accepted start.
C14_OneTimerPending ==
    /\ Len(timers) <= 1
    /\ countdown_value \in 0..3
    /\ goFired <= 1

\* The countdown of a second round is at 1 and a press of start has just
\* been rejected.
C14_Witness ==
    /\ starts = 2
    /\ timers = <<"tick">>
    /\ countdown_value = 1
    /\ lastEvent = "press"
    /\ lastOutcome = "rejected"

\* C15: hits is always between 0 and TOTAL_TARGET_CLICKS and the round is
\* active only while hits is below TOTAL_TARGET_CLICKS; a click while the
\* round is active adds exactly 1 to hits, and the click that makes hits
\* TOTAL_TARGET_CLICKS ends the round in the same step.
C15_HitsBounded ==
    /\ [](/\ hits \in 0..TOTAL_TARGET_CLICKS
          /\ game_active => hits < TOTAL_TARGET_CLICKS)
    /\ [][(Click /\ game_active)
             => /\ hits' = hits + 1
                /\ game_active' = (hits' < TOTAL_TARGET_CLICKS)
                /\ hits' = TOTAL_TARGET_CLICKS => lastOutcome' = "finished"]_vars

\* The click that made hits TOTAL_TARGET_CLICKS has just ended the round.
C15_Witness ==
    /\ lastEvent = "click"
    /\ lastOutcome = "finished"
    /\ hits = TOTAL_TARGET_CLICKS
    /\ ~game_active

\* C16: start_time is unset exactly when hits is 0; the click that ends a
\* round finds start_time set, so finish_game never returns at its guard and
\* hands one entry to record; and an entry is recorded by such a click only.
C16_FinishAlwaysRecords ==
    /\ [](start_time.some <=> hits > 0)
    /\ [][/\ (Click /\ game_active /\ ~game_active')
              => /\ start_time'.some
                 /\ recorded' = recorded + 1
          /\ (proc' = "running" /\ recorded' # recorded)
              => /\ Click /\ game_active /\ ~game_active'
                 /\ recorded' = recorded + 1]_vars

\* The second round of a process has finished and was recorded.
C16_Witness ==
    /\ lastOutcome = "finished"
    /\ start_time.some
    /\ starts = 2
    /\ recorded = 2

\* C17: every entry of the table has a non-negative time, the entries
\* loaded from the file included.
C17_TimesNonNegative == \A i \in DOMAIN scores : scores[i].time >= 0

\* C18: a press of start after a finished round begins Countdown(3) with
\* hits 0 and start_time unset and leaves the table and the file as they
\* were; and start_time, from which the elapsed time is measured, is never
\* anything but the clock at the first registered click of the current round.
C18_RestartResetsRound ==
    /\ [][(PressPlay /\ IdleOrFinished /\ hits = TOTAL_TARGET_CLICKS)
             => /\ countdown_value' = 3
                /\ timers' = <<"tick">>
                /\ hits' = 0
                /\ start_time' = NoTime
                /\ ~game_active'
                /\ UNCHANGED <<scores, file>>]_vars
    /\ [](start_time.some => start_time = firstClickAt)

\* The second round of a process took its first click after the clock had
\* moved, and was timed from that click.
C18_Witness ==
    /\ starts = 2
    /\ recorded = 2
    /\ hits = TOTAL_TARGET_CLICKS
    /\ firstClickAt = SomeTime(1)
    /\ lastElapsed = SomeTime(MaxClock - 1)

\* C19: after every handler the best time shown is the time of the first
\* entry of the table, or the empty marker when the table is empty.
C19_BestLabelIsFirstEntry == proc = "running" => best_label = BestTime(scores)

\* C20: reset, declined or confirmed and in any state of the round, leaves
\* hits, start_time, game_active, the countdown value and the pending timers
\* as they were; declined, it also leaves the table and the file as they
\* were; and a round in progress at a confirmed reset still finishes and is
\* recorded, its entry being the only one of the emptied table.
C20_ResetLeavesRound ==
    [][/\ ResetScores
           => /\ proc' = "running"
              /\ UNCHANGED <<hits, start_time, game_active, countdown_value, timers>>
              /\ lastOutcome' = "declined" => UNCHANGED <<scores, file>>
       /\ (Click /\ game_active /\ ~game_active' /\ roundReset)
           => /\ recorded' = recorded + 1
              /\ Len(scores') = 1
              /\ scores'[1].time = lastElapsed'.t]_vars

\* A round that was in progress when the table was reset has finished and
\* is the only entry of the table.
C20_Witness ==
    /\ roundReset
    /\ lastOutcome = "finished"
    /\ Len(scores) = 1
    /\ scores[1].time = lastElapsed.t
    /\ hits = TOTAL_TARGET_CLICKS

====
